---- MODULE Spec2Model ----
(***************************************************************************)
(* Model of the ledger aggregation and risk engine of journal-live:        *)
(*   app/services/pnl_engine.py, charges_engine.py, position_engine.py     *)
(*   app/routes/pnl_routes.py, risk_routes.py, strategy_pnl_routes.py,     *)
(*   positions_routes.py, capital_routes.py, settings_routes.py            *)
(*   app/services/capital_service.py                                       *)
(*                                                                         *)
(* Representation of values.                                               *)
(*  - A 2-decimal money amount (Numeric(10,2) prices, Numeric(12,2)        *)
(*    capital, every emitted float(round(x, 2))) is an integer number of   *)
(*    paise (1/100 rupee).                                                 *)
(*  - An unrounded Decimal of the charge calculator is a record            *)
(*    [w |-> whole paise, f |-> numerator of a fraction over FracDen],     *)
(*    exact to 9 decimal places of a rupee, which is all the precision     *)
(*    the products turnover * rate * GST_RATE need.                        *)
(*  - A Python str is a tuple of one-character strings, so that `k in s`   *)
(*    and s.upper() are computed character by character.                   *)
(*  - A nullable datetime is NoTime or [date |-> day ordinal, tod |-> t];  *)
(*    day ordinal 0 is 2024-01-01 (a Monday).                              *)
(***************************************************************************)
EXTENDS Integers, Sequences, FiniteSets, TLC

VARIABLES
    trades,     \* the snapshot of the trades table, in the order select(Trade) returns it
    capital,    \* the capital a handler last read from account_settings, in paise
    args,       \* the arguments of a direct call of a pure function
    result,     \* what the last call returned (or the exception it raised)
    account_settings,   \* the committed rows of the account_settings table, by id
    calls       \* the update_capital call of every caller, where it stands

vars == <<trades, capital, args, result, account_settings, calls>>

(***************************************************************************)
(* Bounds of the model                                                     *)
(***************************************************************************)
MaxTrades == 3          \* rows in the trades table
MaxFragments == 2       \* fragments concatenated into a symbol argument
MaxTurnoverSteps == 12  \* turnover arguments are 0 .. MaxTurnoverSteps steps of 25 rupees
MaxCallers == 2         \* requests of POST /capital that run concurrently

(***************************************************************************)
(* Python values                                                           *)
(***************************************************************************)
NoResult == [op |-> "none"]
NoArgs == [fn |-> "none"]
NoTime == [null |-> TRUE]
EmptyStr == << >>

\* `not x` for a str or None: both None and "" are falsy.
IsFalsyStr(s) == s = EmptyStr

LowerLetters == <<"a","b","c","d","e","f","g","h","i","j","k","l","m",
                  "n","o","p","q","r","s","t","u","v","w","x","y","z">>
UpperLetters == <<"A","B","C","D","E","F","G","H","I","J","K","L","M",
                  "N","O","P","Q","R","S","T","U","V","W","X","Y","Z">>

UpperChar(c) ==
    IF \E i \in 1..Len(LowerLetters) : LowerLetters[i] = c
    THEN UpperLetters[CHOOSE i \in 1..Len(LowerLetters) : LowerLetters[i] = c]
    ELSE c

\* str.upper()
Upper(s) == [i \in 1..Len(s) |-> UpperChar(s[i])]

\* `k in s` for two str
Contains(k, s) ==
    \E i \in 1..(Len(s) - Len(k) + 1) : SubSeq(s, i, i + Len(k) - 1) = k

Abs(x) == IF x < 0 THEN -x ELSE x
Max(a, b) == IF a >= b THEN a ELSE b
Min(a, b) == IF a <= b THEN a ELSE b

(***************************************************************************)
(* Decimal arithmetic                                                      *)
(***************************************************************************)
FracDen == 10^7

\* round(n / d) to an integer, ties to even (ROUND_HALF_EVEN, the rounding of
\* round(Decimal, 2)); d > 0, n of either sign.
RoundHalfEven(n, d) ==
    LET q == n \div d
        r == n % d
    IN  IF 2 * r > d THEN q + 1
        ELSE IF 2 * r < d THEN q
        ELSE IF q % 2 = 0 THEN q ELSE q + 1

\* A Decimal from whole paise w and f / FracDen paise, normalised to 0 <= f < FracDen.
Dec(w, f) == [w |-> w + (f \div FracDen), f |-> f % FracDen]
DecAdd(a, b) == Dec(a.w + b.w, a.f + b.f)
\* a * (num / den); den divides FracDen, and the products are exact in FracDen-ths.
DecMul(a, num, den) ==
    LET p == a.w * num
    IN  Dec(p \div den, (p % den) * (FracDen \div den) + (a.f * num) \div den)
\* round(x, 2) of a Decimal, in paise
Round2(a) ==
    IF 2 * a.f > FracDen THEN a.w + 1
    ELSE IF 2 * a.f < FracDen THEN a.w
    ELSE IF a.w % 2 = 0 THEN a.w ELSE a.w + 1
\* float(round(x, 2)) of a Decimal that is a whole number of paise
Round2Paise(x) == Round2(Dec(x, 0))

(***************************************************************************)
(* services/pnl_engine.py, services/position_engine.py: lot registry       *)
(***************************************************************************)
StrNIFTY == <<"N","I","F","T","Y">>
StrBANKNIFTY == <<"B","A","N","K","N","I","F","T","Y">>
StrFINNIFTY == <<"F","I","N","N","I","F","T","Y">>
StrSENSEX == <<"S","E","N","S","E","X">>

\* The dict LOT_SIZES in insertion order, the order .items() iterates in.
LOT_SIZES ==
    << [key |-> StrNIFTY, size |-> 75],
       [key |-> StrBANKNIFTY, size |-> 15],
       [key |-> StrFINNIFTY, size |-> 40],
       [key |-> StrSENSEX, size |-> 20] >>

get_lot_size(symbol) ==
    IF IsFalsyStr(symbol) THEN 1
    ELSE LET s == Upper(symbol)
             hit == {i \in 1..Len(LOT_SIZES) : Contains(LOT_SIZES[i].key, s)}
         IN  IF hit = {} THEN 1
             ELSE LOT_SIZES[CHOOSE i \in hit : \A j \in hit : i <= j].size

\* services/position_engine.py holds its own copy of the registry and the lookup.
position_get_lot_size(symbol) ==
    IF IsFalsyStr(symbol) THEN 1
    ELSE LET s == Upper(symbol)
             hit == {i \in 1..Len(LOT_SIZES) : Contains(LOT_SIZES[i].key, s)}
         IN  IF hit = {} THEN 1
             ELSE LOT_SIZES[CHOOSE i \in hit : \A j \in hit : i <= j].size

(***************************************************************************)
(* services/charges_engine.py                                              *)
(***************************************************************************)
BROKERAGE_PER_ORDER == 2000                             \* Decimal("20"), in paise
EXCHANGE_CHARGE_RATE == [num |-> 53, den |-> 100000]    \* Decimal("0.00053")
SEBI_CHARGE_RATE == [num |-> 1, den |-> 1000000]        \* Decimal("0.000001")
GST_RATE == [num |-> 18, den |-> 100]                   \* Decimal("0.18")
STAMP_RATE == [num |-> 3, den |-> 100000]               \* Decimal("0.00003")

\* Components whose GST is charged on the regulatory charge and the stamp duty too.
ChargeComponentsGstOnAll(buy_turnover, sell_turnover) ==
    LET turnover == buy_turnover + sell_turnover
        brokerage == (IF buy_turnover > 0 THEN BROKERAGE_PER_ORDER ELSE 0)
                     + (IF sell_turnover > 0 THEN BROKERAGE_PER_ORDER ELSE 0)
        exchange_charges == DecMul(Dec(turnover, 0), EXCHANGE_CHARGE_RATE.num, EXCHANGE_CHARGE_RATE.den)
        sebi_charges == DecMul(Dec(turnover, 0), SEBI_CHARGE_RATE.num, SEBI_CHARGE_RATE.den)
        stamp_duty == DecMul(Dec(buy_turnover, 0), STAMP_RATE.num, STAMP_RATE.den)
        gst == DecMul(DecAdd(DecAdd(DecAdd(Dec(brokerage, 0), exchange_charges), sebi_charges), stamp_duty),
                      GST_RATE.num, GST_RATE.den)
    IN  [brokerage |-> Dec(brokerage, 0),
         exchange |-> exchange_charges,
         sebi |-> sebi_charges,
         stamp |-> stamp_duty,
         gst |-> gst,
         total |-> DecAdd(DecAdd(DecAdd(DecAdd(Dec(brokerage, 0), exchange_charges),
                                        sebi_charges), stamp_duty), gst)]

\* The unrounded components, as calculate_charges computes them.
ChargeComponents(buy_turnover, sell_turnover) ==
    LET turnover == buy_turnover + sell_turnover
        brokerage == (IF buy_turnover > 0 THEN BROKERAGE_PER_ORDER ELSE 0)
                     + (IF sell_turnover > 0 THEN BROKERAGE_PER_ORDER ELSE 0)
        exchange_charges == DecMul(Dec(turnover, 0), EXCHANGE_CHARGE_RATE.num, EXCHANGE_CHARGE_RATE.den)
        sebi_charges == DecMul(Dec(turnover, 0), SEBI_CHARGE_RATE.num, SEBI_CHARGE_RATE.den)
        stamp_duty == DecMul(Dec(buy_turnover, 0), STAMP_RATE.num, STAMP_RATE.den)
        gst == DecMul(DecAdd(Dec(brokerage, 0), exchange_charges), GST_RATE.num, GST_RATE.den)
    IN  [brokerage |-> Dec(brokerage, 0),
         exchange |-> exchange_charges,
         sebi |-> sebi_charges,
         stamp |-> stamp_duty,
         gst |-> gst,
         total |-> DecAdd(DecAdd(DecAdd(DecAdd(Dec(brokerage, 0), exchange_charges),
                                        sebi_charges), stamp_duty), gst)]

calculate_charges(buy_turnover, sell_turnover) ==
    LET c == ChargeComponents(buy_turnover, sell_turnover)
    IN  [brokerage |-> Round2(c.brokerage),
         exchange |-> Round2(c.exchange),
         sebi |-> Round2(c.sebi),
         stamp |-> Round2(c.stamp),
         gst |-> Round2(c.gst),
         total |-> Round2(c.total)]

(***************************************************************************)
(* datetime.date                                                           *)
(***************************************************************************)
\* The months of 2024; day ordinals 0 .. 365 are the dates of 2024.
MonthLengths == <<31, 29, 31, 30, 31, 30, 31, 31, 30, 31, 30, 31>>

\* The days of 2024 before the first of month m
DaysBeforeMonth(m) == <<0, 31, 60, 91, 121, 152, 182, 213, 244, 274, 305, 335>>[m]

\* datetime.date(): the calendar date of a timestamp, its time of day dropped
DateOf(trade_time) == trade_time.date

\* str(d): "YYYY-MM-DD", as its three fields
DateStr(n) ==
    LET m == CHOOSE k \in 1..12 : DaysBeforeMonth(k) <= n /\ n < DaysBeforeMonth(k) + MonthLengths[k]
    IN  [year |-> 2024, month |-> m, day |-> n - DaysBeforeMonth(m) + 1]

\* date.fromisoformat(s)
FromIsoFormat(s) == DaysBeforeMonth(s.month) + s.day - 1

\* d.isocalendar()[:2]: the ISO year and week, those of the Thursday of d's week
IsoYearWeek(n) ==
    LET thursday == n - (n % 7) + 3
    IN  IF thursday <= 365 THEN <<2024, (thursday \div 7) + 1>> ELSE <<2025, 1>>

\* d.strftime("%Y-%m")
MonthKey(n) == [year |-> DateStr(n).year, month |-> DateStr(n).month]

\* s.startswith(month_key) for s a "YYYY-MM-DD" string
StartsWithMonth(s, month_key) == s.year = month_key.year /\ s.month = month_key.month

(***************************************************************************)
(* Python containers                                                       *)
(***************************************************************************)
\* d[k] of a defaultdict: the default when k is not a key
Get(f, k, default) == IF k \in DOMAIN f THEN f[k] ELSE default
\* d[k] = v
Put(f, k, v) == [x \in (DOMAIN f) \cup {k} |-> IF x = k THEN v ELSE f[x]]
EmptyDict == [x \in {} |-> 0]

\* sorted(S) of a set of integers, ascending
RECURSIVE Sorted(_)
Sorted(S) ==
    IF S = {} THEN << >>
    ELSE LET m == CHOOSE x \in S : \A y \in S : x <= y
         IN  <<m>> \o Sorted(S \ {m})

RECURSIVE SumOver(_, _)
SumOver(f, S) ==
    IF S = {} THEN 0
    ELSE LET k == CHOOSE x \in S : TRUE IN f[k] + SumOver(f, S \ {k})

RECURSIVE SumSeq(_)
SumSeq(s) == IF s = << >> THEN 0 ELSE Head(s) + SumSeq(Tail(s))

(***************************************************************************)
(* services/pnl_engine.py: aggregate_pnl                                   *)
(***************************************************************************)
\* qty * price * lot of one trade, in paise
TradeValue(t) == t.quantity * t.price * get_lot_size(t.symbol)

\* A trade loop that skips a trade without a timestamp, and keeps one without a symbol.
LedgerStepSkipTimeOnly(acc, t) ==
    IF t.trade_time = NoTime THEN acc
    ELSE LET d == DateOf(t.trade_time)
             value == TradeValue(t)
             day == Get(acc.ledger, d, EmptyDict)
             cell == Get(day, t.symbol, [buy |-> 0, sell |-> 0])
         IN  IF t.side = "BUY"
             THEN [ledger |-> Put(acc.ledger, d, Put(day, t.symbol, [cell EXCEPT !.buy = @ + value])),
                   daily_buy |-> Put(acc.daily_buy, d, Get(acc.daily_buy, d, 0) + value),
                   daily_sell |-> acc.daily_sell]
             ELSE IF t.side = "SELL"
             THEN [ledger |-> Put(acc.ledger, d, Put(day, t.symbol, [cell EXCEPT !.sell = @ + value])),
                   daily_buy |-> acc.daily_buy,
                   daily_sell |-> Put(acc.daily_sell, d, Get(acc.daily_sell, d, 0) + value)]
             ELSE acc

\* A trade loop that opens the ledger of the date before it looks at the side.
LedgerStepOpensDate(acc, t) ==
    IF t.trade_time = NoTime \/ IsFalsyStr(t.symbol) THEN acc
    ELSE LET d == DateOf(t.trade_time)
             value == TradeValue(t)
             day == Get(acc.ledger, d, EmptyDict)
             cell == Get(day, t.symbol, [buy |-> 0, sell |-> 0])
         IN  IF t.side = "BUY"
             THEN [ledger |-> Put(acc.ledger, d, Put(day, t.symbol, [cell EXCEPT !.buy = @ + value])),
                   daily_buy |-> Put(acc.daily_buy, d, Get(acc.daily_buy, d, 0) + value),
                   daily_sell |-> acc.daily_sell]
             ELSE IF t.side = "SELL"
             THEN [ledger |-> Put(acc.ledger, d, Put(day, t.symbol, [cell EXCEPT !.sell = @ + value])),
                   daily_buy |-> acc.daily_buy,
                   daily_sell |-> Put(acc.daily_sell, d, Get(acc.daily_sell, d, 0) + value)]
             ELSE [acc EXCEPT !.ledger = Put(acc.ledger, d, day)]

\* One iteration of the trade loop on the accumulators ledger, daily_buy, daily_sell.
LedgerStep(acc, t) ==
    IF t.trade_time = NoTime \/ IsFalsyStr(t.symbol) THEN acc
    ELSE LET d == DateOf(t.trade_time)
             value == TradeValue(t)
             day == Get(acc.ledger, d, EmptyDict)
             cell == Get(day, t.symbol, [buy |-> 0, sell |-> 0])
         IN  IF t.side = "BUY"
             THEN [ledger |-> Put(acc.ledger, d, Put(day, t.symbol, [cell EXCEPT !.buy = @ + value])),
                   daily_buy |-> Put(acc.daily_buy, d, Get(acc.daily_buy, d, 0) + value),
                   daily_sell |-> acc.daily_sell]
             ELSE IF t.side = "SELL"
             THEN [ledger |-> Put(acc.ledger, d, Put(day, t.symbol, [cell EXCEPT !.sell = @ + value])),
                   daily_buy |-> acc.daily_buy,
                   daily_sell |-> Put(acc.daily_sell, d, Get(acc.daily_sell, d, 0) + value)]
             ELSE acc

RECURSIVE TradeLoop(_, _)
TradeLoop(acc, trs) ==
    IF trs = << >> THEN acc ELSE TradeLoop(LedgerStep(acc, Head(trs)), Tail(trs))

\* A guard that lets a negative capital through to the division.
RiskPctNonZeroGuard(net, cap) ==
    IF cap # 0 THEN RoundHalfEven(Abs(net) * 10000, Abs(cap)) ELSE 0

\* risk_pct = abs(net) / capital * 100 if capital > 0 else 0, rounded to 2 places:
\* in hundredths of a percent
RiskPct(net, cap) ==
    IF cap > 0 THEN RoundHalfEven(Abs(net) * 10000, cap) ELSE 0

\* The equity walk keeps no running peak: the drawdown is measured from the capital.
DailyStepNoPeak(acc, d, tl, cap) ==
    LET day == tl.ledger[d]
        gross == SumOver([s \in DOMAIN day |-> day[s].sell - day[s].buy], DOMAIN day)
        charges == calculate_charges(Get(tl.daily_buy, d, 0), Get(tl.daily_sell, d, 0))
        net == gross - charges.total
        running_pnl == acc.running_pnl + net
        equity == cap + running_pnl
        drawdown == equity - cap
    IN  [daily |-> Append(acc.daily,
                     [date |-> DateStr(d),
                      gross_pnl |-> Round2Paise(gross),
                      net_pnl |-> Round2Paise(net),
                      equity |-> Round2Paise(equity),
                      drawdown |-> Round2Paise(drawdown),
                      charges |-> charges,
                      risk_pct |-> RiskPct(net, cap)]),
         running_pnl |-> running_pnl,
         peak_equity |-> acc.peak_equity,
         max_drawdown |-> Min(acc.max_drawdown, drawdown),
         gross_total |-> acc.gross_total + gross,
         net_total |-> acc.net_total + net,
         charges_total |-> acc.charges_total + charges.total]

\* A daily aggregation that charges every symbol of the date on its own turnover.
DailyStepChargesPerSymbol(acc, d, tl, cap) ==
    LET day == tl.ledger[d]
        gross == SumOver([s \in DOMAIN day |-> day[s].sell - day[s].buy], DOMAIN day)
        charges == calculate_charges(Get(tl.daily_buy, d, 0), Get(tl.daily_sell, d, 0))
        charge_val == SumOver([s \in DOMAIN day |-> calculate_charges(day[s].buy, day[s].sell).total],
                              DOMAIN day)
        net == gross - charge_val
        running_pnl == acc.running_pnl + net
        equity == cap + running_pnl
        peak_equity == Max(acc.peak_equity, equity)
        drawdown == equity - peak_equity
    IN  [daily |-> Append(acc.daily,
                     [date |-> DateStr(d),
                      gross_pnl |-> Round2Paise(gross),
                      net_pnl |-> Round2Paise(net),
                      equity |-> Round2Paise(equity),
                      drawdown |-> Round2Paise(drawdown),
                      charges |-> charges,
                      risk_pct |-> RiskPct(net, cap)]),
         running_pnl |-> running_pnl,
         peak_equity |-> peak_equity,
         max_drawdown |-> Min(acc.max_drawdown, drawdown),
         gross_total |-> acc.gross_total + gross,
         net_total |-> acc.net_total + net,
         charges_total |-> acc.charges_total + charge_val]

\* An equity walk whose equity is the capital plus the net PnL of the date alone.
DailyStepEquityOfDay(acc, d, tl, cap) ==
    LET day == tl.ledger[d]
        gross == SumOver([s \in DOMAIN day |-> day[s].sell - day[s].buy], DOMAIN day)
        charges == calculate_charges(Get(tl.daily_buy, d, 0), Get(tl.daily_sell, d, 0))
        charge_val == charges.total
        net == gross - charge_val
        running_pnl == acc.running_pnl + net
        equity == cap + net
        peak_equity == Max(acc.peak_equity, equity)
        drawdown == equity - peak_equity
    IN  [daily |-> Append(acc.daily,
                     [date |-> DateStr(d),
                      gross_pnl |-> Round2Paise(gross),
                      net_pnl |-> Round2Paise(net),
                      equity |-> Round2Paise(equity),
                      drawdown |-> Round2Paise(drawdown),
                      charges |-> charges,
                      risk_pct |-> RiskPct(net, cap)]),
         running_pnl |-> running_pnl,
         peak_equity |-> peak_equity,
         max_drawdown |-> Min(acc.max_drawdown, drawdown),
         gross_total |-> acc.gross_total + gross,
         net_total |-> acc.net_total + net,
         charges_total |-> acc.charges_total + charge_val]

\* One iteration of the daily aggregation, for date d.
DailyStep(acc, d, tl, cap) ==
    LET day == tl.ledger[d]
        gross == SumOver([s \in DOMAIN day |-> day[s].sell - day[s].buy], DOMAIN day)
        charges == calculate_charges(Get(tl.daily_buy, d, 0), Get(tl.daily_sell, d, 0))
        charge_val == charges.total
        net == gross - charge_val
        running_pnl == acc.running_pnl + net
        equity == cap + running_pnl
        peak_equity == Max(acc.peak_equity, equity)
        drawdown == equity - peak_equity
    IN  [daily |-> Append(acc.daily,
                     [date |-> DateStr(d),
                      gross_pnl |-> Round2Paise(gross),
                      net_pnl |-> Round2Paise(net),
                      equity |-> Round2Paise(equity),
                      drawdown |-> Round2Paise(drawdown),
                      charges |-> charges,
                      risk_pct |-> RiskPct(net, cap)]),
         running_pnl |-> running_pnl,
         peak_equity |-> peak_equity,
         max_drawdown |-> Min(acc.max_drawdown, drawdown),
         gross_total |-> acc.gross_total + gross,
         net_total |-> acc.net_total + net,
         charges_total |-> acc.charges_total + charge_val]

RECURSIVE DailyLoop(_, _, _, _)
DailyLoop(acc, ds, tl, cap) ==
    IF ds = << >> THEN acc ELSE DailyLoop(DailyStep(acc, Head(ds), tl, cap), Tail(ds), tl, cap)

\* sum(Decimal(str(r["net_pnl"])) for r in daily if keep(r))
RECURSIVE WindowSum(_, _)
WindowSum(daily, keep) ==
    IF daily = << >> THEN 0
    ELSE (IF Head(daily).date \in keep THEN Head(daily).net_pnl ELSE 0) + WindowSum(Tail(daily), keep)

\* Time filters whose reference date is the invocation date, whatever the ledger holds.
TimeFiltersFromToday(daily, today) ==
    LET last_date == today
        iso_year_week == IsoYearWeek(last_date)
        month_key == MonthKey(last_date)
        last_str == DateStr(last_date)
        dates == {daily[i].date : i \in 1..Len(daily)}
    IN  [today_pnl |-> WindowSum(daily, {s \in dates : s = last_str}),
         week_pnl |-> WindowSum(daily, {s \in dates : IsoYearWeek(FromIsoFormat(s)) = iso_year_week}),
         month_pnl |-> WindowSum(daily, {s \in dates : StartsWithMonth(s, month_key)})]

\* Time filters whose week is the seven days that end on the last date.
TimeFiltersRollingWeek(daily, today) ==
    LET last_date == IF daily # << >> THEN FromIsoFormat(daily[Len(daily)].date) ELSE today
        month_key == MonthKey(last_date)
        last_str == DateStr(last_date)
        dates == {daily[i].date : i \in 1..Len(daily)}
    IN  [today_pnl |-> WindowSum(daily, {s \in dates : s = last_str}),
         week_pnl |-> WindowSum(daily, {s \in dates : FromIsoFormat(s) > last_date - 7}),
         month_pnl |-> WindowSum(daily, {s \in dates : StartsWithMonth(s, month_key)})]

\* The time filters: the sums of net_pnl over the last date, its ISO week and its month.
TimeFilters(daily, today) ==
    LET last_date == IF daily # << >> THEN FromIsoFormat(daily[Len(daily)].date) ELSE today
        iso_year_week == IsoYearWeek(last_date)
        month_key == MonthKey(last_date)
        last_str == DateStr(last_date)
        dates == {daily[i].date : i \in 1..Len(daily)}
    IN  [today_pnl |-> WindowSum(daily, {s \in dates : s = last_str}),
         week_pnl |-> WindowSum(daily, {s \in dates : IsoYearWeek(FromIsoFormat(s)) = iso_year_week}),
         month_pnl |-> WindowSum(daily, {s \in dates : StartsWithMonth(s, month_key)})]

\* A summary that reports the gross total as the net total.
SummaryNetFromGross(walk, cap, today) ==
    LET f == TimeFilters(walk.daily, today)
        remaining_capital == cap + walk.net_total
    IN  [today |-> Round2Paise(f.today_pnl),
         this_week |-> Round2Paise(f.week_pnl),
         this_month |-> Round2Paise(f.month_pnl),
         gross_total |-> Round2Paise(walk.gross_total),
         charges_total |-> Round2Paise(walk.charges_total),
         net_total |-> Round2Paise(walk.gross_total),
         capital |-> Round2Paise(cap),
         remaining_capital |-> Round2Paise(remaining_capital),
         max_drawdown |-> Round2Paise(walk.max_drawdown)]

\* A summary whose remaining capital leaves the charges out.
SummaryRemainingFromGross(walk, cap, today) ==
    LET f == TimeFilters(walk.daily, today)
        remaining_capital == cap + walk.gross_total
    IN  [today |-> Round2Paise(f.today_pnl),
         this_week |-> Round2Paise(f.week_pnl),
         this_month |-> Round2Paise(f.month_pnl),
         gross_total |-> Round2Paise(walk.gross_total),
         charges_total |-> Round2Paise(walk.charges_total),
         net_total |-> Round2Paise(walk.net_total),
         capital |-> Round2Paise(cap),
         remaining_capital |-> Round2Paise(remaining_capital),
         max_drawdown |-> Round2Paise(walk.max_drawdown)]

\* A summary whose remaining capital is the net total alone.
SummaryRemainingWithoutCapital(walk, cap, today) ==
    LET f == TimeFilters(walk.daily, today)
        remaining_capital == walk.net_total
    IN  [today |-> Round2Paise(f.today_pnl),
         this_week |-> Round2Paise(f.week_pnl),
         this_month |-> Round2Paise(f.month_pnl),
         gross_total |-> Round2Paise(walk.gross_total),
         charges_total |-> Round2Paise(walk.charges_total),
         net_total |-> Round2Paise(walk.net_total),
         capital |-> Round2Paise(cap),
         remaining_capital |-> Round2Paise(remaining_capital),
         max_drawdown |-> Round2Paise(walk.max_drawdown)]

\* The summary of the final response.
Summary(walk, cap, today) ==
    LET f == TimeFilters(walk.daily, today)
        remaining_capital == cap + walk.net_total
    IN  [today |-> Round2Paise(f.today_pnl),
         this_week |-> Round2Paise(f.week_pnl),
         this_month |-> Round2Paise(f.month_pnl),
         gross_total |-> Round2Paise(walk.gross_total),
         charges_total |-> Round2Paise(walk.charges_total),
         net_total |-> Round2Paise(walk.net_total),
         capital |-> Round2Paise(cap),
         remaining_capital |-> Round2Paise(remaining_capital),
         max_drawdown |-> Round2Paise(walk.max_drawdown)]

\* The dates of the ledger in the order the trade loop inserted them
RECURSIVE InsertionOrder(_, _)
InsertionOrder(trs, seen) ==
    IF trs = << >> THEN << >>
    ELSE LET t == Head(trs)
             counted == t.trade_time # NoTime /\ ~IsFalsyStr(t.symbol) /\ t.side \in {"BUY", "SELL"}
         IN  IF counted /\ DateOf(t.trade_time) \notin seen
             THEN <<DateOf(t.trade_time)>> \o InsertionOrder(Tail(trs), seen \cup {DateOf(t.trade_time)})
             ELSE InsertionOrder(Tail(trs), seen)

\* A daily aggregation that walks the ledger in insertion order, without sorted().
EquityWalkUnsorted(trs, cap) ==
    LET tl == TradeLoop([ledger |-> EmptyDict, daily_buy |-> EmptyDict, daily_sell |-> EmptyDict], trs)
    IN  DailyLoop([daily |-> << >>, running_pnl |-> 0, peak_equity |-> cap,
                   max_drawdown |-> 0, gross_total |-> 0, net_total |-> 0,
                   charges_total |-> 0],
                  InsertionOrder(trs, {}), tl, cap)

\* The trade loop and the daily aggregation: the accumulators after the last date.
EquityWalk(trs, cap) ==
    LET tl == TradeLoop([ledger |-> EmptyDict, daily_buy |-> EmptyDict, daily_sell |-> EmptyDict], trs)
    IN  DailyLoop([daily |-> << >>, running_pnl |-> 0, peak_equity |-> cap,
                   max_drawdown |-> 0, gross_total |-> 0, net_total |-> 0,
                   charges_total |-> 0],
                  Sorted(DOMAIN tl.ledger), tl, cap)

\* The final response, from the accumulators
FinalResponse(walk, cap, today) ==
    [daily |-> walk.daily, summary |-> Summary(walk, cap, today)]

\* aggregate_pnl(trades, capital), called on the date `today`
aggregate_pnl(trs, cap, today) == FinalResponse(EquityWalk(trs, cap), cap, today)

(***************************************************************************)
(* routes/pnl_routes.py, routes/risk_routes.py                             *)
(***************************************************************************)
\* GET /pnl: the engine output as is
pnl_summary(trs, cap, today) == aggregate_pnl(trs, cap, today)

\* risk_pct of one row of GET /risk-usage, in hundredths of a percent
RouteRiskPct(net_pnl, cap) ==
    IF cap > 0 THEN RoundHalfEven(Abs(net_pnl) * 10000, cap) ELSE 0

\* The rows of GET /risk-usage, from the daily entries of the engine
RiskRows(daily, cap) ==
    [i \in 1..Len(daily) |->
        [date |-> daily[i].date, risk_pct |-> RouteRiskPct(daily[i].net_pnl, cap)]]

\* GET /risk-usage
risk_usage(trs, cap, today) == RiskRows(aggregate_pnl(trs, cap, today).daily, cap)

(***************************************************************************)
(* services/position_engine.py: calculate_positions                        *)
(***************************************************************************)
EmptyPosition == [buy_qty |-> 0, sell_qty |-> 0, buy_value |-> 0, sell_value |-> 0]

\* One iteration of the loop that builds the position ledger; `order` is the
\* insertion order of the dict's keys.
PositionStep(acc, t) ==
    LET p == Get(acc.positions, t.symbol, EmptyPosition)
        order == IF t.symbol \in DOMAIN acc.positions THEN acc.order ELSE Append(acc.order, t.symbol)
    IN  IF t.side = "BUY"
        THEN [positions |-> Put(acc.positions, t.symbol,
                               [p EXCEPT !.buy_qty = @ + t.quantity,
                                         !.buy_value = @ + t.quantity * t.price]),
              order |-> order]
        ELSE IF t.side = "SELL"
        THEN [positions |-> Put(acc.positions, t.symbol,
                               [p EXCEPT !.sell_qty = @ + t.quantity,
                                         !.sell_value = @ + t.quantity * t.price]),
              order |-> order]
        ELSE acc

RECURSIVE PositionLoop(_, _)
PositionLoop(acc, trs) ==
    IF trs = << >> THEN acc ELSE PositionLoop(PositionStep(acc, Head(trs)), Tail(trs))

\* A summary whose average price is the net cost per bought unit.
PositionSummaryNetAverage(symbol, p) ==
    LET traded_qty == Min(p.buy_qty, p.sell_qty)
        lot_size == position_get_lot_size(symbol)
        points_num == (IF p.sell_qty # 0 THEN p.sell_value * (IF p.buy_qty # 0 THEN p.buy_qty ELSE 1) ELSE 0)
                      - (IF p.buy_qty # 0 THEN p.buy_value * (IF p.sell_qty # 0 THEN p.sell_qty ELSE 1) ELSE 0)
        points_den == (IF p.buy_qty # 0 THEN p.buy_qty ELSE 1) * (IF p.sell_qty # 0 THEN p.sell_qty ELSE 1)
    IN  [symbol |-> symbol,
         net_qty |-> p.buy_qty - p.sell_qty,
         lots |-> traded_qty,
         lot_size |-> lot_size,
         avg_price |-> IF p.buy_qty # 0 THEN RoundHalfEven(p.buy_value - p.sell_value, p.buy_qty) ELSE 0,
         realized_pnl_points |-> RoundHalfEven(points_num, points_den),
         realized_pnl_amount |-> RoundHalfEven(points_num * lot_size * traded_qty, points_den)]

\* A summary whose amount is points times quantity, without the lot size.
PositionSummaryWithoutLot(symbol, p) ==
    LET traded_qty == Min(p.buy_qty, p.sell_qty)
        lot_size == position_get_lot_size(symbol)
        points_num == (IF p.sell_qty # 0 THEN p.sell_value * (IF p.buy_qty # 0 THEN p.buy_qty ELSE 1) ELSE 0)
                      - (IF p.buy_qty # 0 THEN p.buy_value * (IF p.sell_qty # 0 THEN p.sell_qty ELSE 1) ELSE 0)
        points_den == (IF p.buy_qty # 0 THEN p.buy_qty ELSE 1) * (IF p.sell_qty # 0 THEN p.sell_qty ELSE 1)
    IN  [symbol |-> symbol,
         net_qty |-> p.buy_qty - p.sell_qty,
         lots |-> traded_qty,
         lot_size |-> lot_size,
         avg_price |-> IF p.buy_qty # 0 THEN RoundHalfEven(p.buy_value, p.buy_qty) ELSE 0,
         realized_pnl_points |-> RoundHalfEven(points_num, points_den),
         realized_pnl_amount |-> RoundHalfEven(points_num * traded_qty, points_den)]

\* The summary of one symbol; prices and amounts in paise, rounded half-even from
\* the exact quotients.
PositionSummary(symbol, p) ==
    LET traded_qty == Min(p.buy_qty, p.sell_qty)
        lot_size == position_get_lot_size(symbol)
        \* avg_sell - avg_buy == points_num / points_den
        points_num == (IF p.sell_qty # 0 THEN p.sell_value * (IF p.buy_qty # 0 THEN p.buy_qty ELSE 1) ELSE 0)
                      - (IF p.buy_qty # 0 THEN p.buy_value * (IF p.sell_qty # 0 THEN p.sell_qty ELSE 1) ELSE 0)
        points_den == (IF p.buy_qty # 0 THEN p.buy_qty ELSE 1) * (IF p.sell_qty # 0 THEN p.sell_qty ELSE 1)
    IN  [symbol |-> symbol,
         net_qty |-> p.buy_qty - p.sell_qty,
         lots |-> traded_qty,
         lot_size |-> lot_size,
         avg_price |-> IF p.buy_qty # 0 THEN RoundHalfEven(p.buy_value, p.buy_qty) ELSE 0,
         realized_pnl_points |-> RoundHalfEven(points_num, points_den),
         realized_pnl_amount |-> RoundHalfEven(points_num * lot_size * traded_qty, points_den)]

\* A gate that lets a one-sided position through.
PositionEmittedOneSided(p) == Max(p.buy_qty, p.sell_qty) # 0

\* The gate of the loop that calculates the P&L: `if traded_qty == 0: continue`
PositionEmitted(p) == Min(p.buy_qty, p.sell_qty) # 0

RECURSIVE PositionResult(_, _)
PositionResult(order, positions) ==
    IF order = << >> THEN << >>
    ELSE (IF PositionEmitted(positions[Head(order)])
          THEN << PositionSummary(Head(order), positions[Head(order)]) >>
          ELSE << >>) \o PositionResult(Tail(order), positions)

calculate_positions(trs) ==
    LET acc == PositionLoop([positions |-> EmptyDict, order |-> << >>], trs)
    IN  PositionResult(acc.order, acc.positions)

(***************************************************************************)
(* routes/positions_routes.py: GET /positions                              *)
(***************************************************************************)
\* order_by(Trade.trade_time) on SQLite: NULL first, then ascending; rows with
\* equal keys keep their table order.
TimeKey(t) == IF t.trade_time = NoTime THEN -1 ELSE t.trade_time.date * 2 + t.trade_time.tod

RECURSIVE OrderByTradeTime(_)
OrderByTradeTime(trs) ==
    IF trs = << >> THEN << >>
    ELSE LET i == CHOOSE k \in 1..Len(trs) :
                    /\ \A j \in 1..Len(trs) : TimeKey(trs[k]) <= TimeKey(trs[j])
                    /\ \A j \in 1..(k - 1) : TimeKey(trs[j]) > TimeKey(trs[k])
         IN  <<trs[i]>> \o OrderByTradeTime(SubSeq(trs, 1, i - 1) \o SubSeq(trs, i + 1, Len(trs)))

\* side.upper() for the sides a trade can carry
UpperSide(side) ==
    IF side = "buy" THEN "BUY" ELSE IF side = "sell" THEN "SELL" ELSE side

RoutePositionStep(acc, t) ==
    IF IsFalsyStr(t.symbol) \/ t.side = "" THEN acc
    ELSE LET p == Get(acc.positions, t.symbol, EmptyPosition)
             order == IF t.symbol \in DOMAIN acc.positions THEN acc.order ELSE Append(acc.order, t.symbol)
         IN  IF UpperSide(t.side) = "BUY"
             THEN [positions |-> Put(acc.positions, t.symbol,
                                    [p EXCEPT !.buy_qty = @ + t.quantity,
                                              !.buy_value = @ + t.quantity * t.price]),
                   order |-> order]
             ELSE IF UpperSide(t.side) = "SELL"
             THEN [positions |-> Put(acc.positions, t.symbol,
                                    [p EXCEPT !.sell_qty = @ + t.quantity,
                                              !.sell_value = @ + t.quantity * t.price]),
                   order |-> order]
             ELSE [positions |-> Put(acc.positions, t.symbol, p), order |-> order]

RECURSIVE RoutePositionLoop(_, _)
RoutePositionLoop(acc, trs) ==
    IF trs = << >> THEN acc ELSE RoutePositionLoop(RoutePositionStep(acc, Head(trs)), Tail(trs))

\* A gate that lets a one-sided position through to the averages.
RoutePositionEmittedOneSided(p) == Max(p.buy_qty, p.sell_qty) > 0

\* The gate of the route: `if realized_qty <= 0: continue`
RoutePositionEmitted(p) == Min(p.buy_qty, p.sell_qty) > 0

RoutePositionSummary(symbol, p) ==
    LET realized_qty == Min(p.buy_qty, p.sell_qty)
        lot_size == get_lot_size(symbol)
        points_num == p.sell_value * p.buy_qty - p.buy_value * p.sell_qty
        points_den == p.buy_qty * p.sell_qty
    IN  [symbol |-> symbol,
         net_qty |-> 0,
         realized_qty |-> realized_qty,
         avg_price |-> RoundHalfEven(p.buy_value, p.buy_qty),
         realized_pnl_points |-> RoundHalfEven(points_num, points_den),
         realized_pnl_amount |-> RoundHalfEven(points_num * realized_qty * lot_size, points_den)]

RECURSIVE RoutePositionResult(_, _)
RoutePositionResult(order, positions) ==
    IF order = << >> THEN << >>
    ELSE (IF RoutePositionEmitted(positions[Head(order)])
          THEN << RoutePositionSummary(Head(order), positions[Head(order)]) >>
          ELSE << >>) \o RoutePositionResult(Tail(order), positions)

get_realized_positions(trs) ==
    LET acc == RoutePositionLoop([positions |-> EmptyDict, order |-> << >>], OrderByTradeTime(trs))
    IN  RoutePositionResult(acc.order, acc.positions)

\* The exception of the divisions p["buy_value"] / p["buy_qty"] and
\* p["sell_value"] / p["sell_qty"], which no test of the divisor guards: "" when
\* every emitted position has both divisors non-zero, else what Decimal raises
\* for the first one that has not (0 / 0 is InvalidOperation, x / 0 DivisionByZero).
RoutePositionsError(trs) ==
    LET acc == RoutePositionLoop([positions |-> EmptyDict, order |-> << >>], OrderByTradeTime(trs))
        bad == {i \in 1..Len(acc.order) :
                  LET q == acc.positions[acc.order[i]]
                  IN  RoutePositionEmitted(q) /\ (q.buy_qty = 0 \/ q.sell_qty = 0)}
    IN  IF bad = {} THEN ""
        ELSE LET q == acc.positions[acc.order[CHOOSE i \in bad : \A j \in bad : i <= j]]
             IN  IF (q.buy_qty = 0 /\ q.buy_value = 0) \/ (q.buy_qty # 0 /\ q.sell_value = 0)
                 THEN "InvalidOperation" ELSE "DivisionByZero"

(***************************************************************************)
(* routes/strategy_pnl_routes.py: GET /analytics/strategy-pnl              *)
(***************************************************************************)
RECURSIVE GCD(_, _)
GCD(a, b) == IF b = 0 THEN a ELSE GCD(b, a % b)

\* An exact quotient n / d (d > 0) in lowest terms, for the Decimal expressions
\* value / day_total and daily_charges[d] * portion. Decimal rounds a quotient
\* to 28 significant digits; the quotient is kept exact here.
Rat(n, d) == LET g == GCD(Abs(n), d) IN [n |-> n \div g, d |-> d \div g]
RatAdd(a, b) == Rat(a.n * b.d + b.n * a.d, a.d * b.d)

\* t.final_strategy or t.suggested_strategy or "Unclassified"
StrategyOf(t) ==
    IF t.final_strategy # "" THEN t.final_strategy
    ELSE IF t.suggested_strategy # "" THEN t.suggested_strategy
    ELSE "Unclassified"

\* One iteration of the first pass, on the accumulators daily_buy and daily_sell.
TurnoverStep(acc, t) ==
    IF t.trade_time = NoTime \/ IsFalsyStr(t.symbol) THEN acc
    ELSE LET d == DateOf(t.trade_time)
             value == TradeValue(t)
         IN  IF t.side = "BUY"
             THEN [acc EXCEPT !.daily_buy = Put(@, d, Get(@, d, 0) + value)]
             ELSE IF t.side = "SELL"
             THEN [acc EXCEPT !.daily_sell = Put(@, d, Get(@, d, 0) + value)]
             ELSE acc

RECURSIVE TurnoverLoop(_, _)
TurnoverLoop(acc, trs) ==
    IF trs = << >> THEN acc ELSE TurnoverLoop(TurnoverStep(acc, Head(trs)), Tail(trs))

\* daily_charges: the charge total of every date with a turnover
DailyCharges(tv) ==
    [d \in (DOMAIN tv.daily_buy) \cup (DOMAIN tv.daily_sell) |->
        calculate_charges(Get(tv.daily_buy, d, 0), Get(tv.daily_sell, d, 0)).total]

EmptyStats == [gross |-> 0, charges |-> Rat(0, 1), trades |-> 0]

\* One iteration of the second pass, which skips no trade; t.trade_time.date()
\* raises AttributeError when trade_time is None.
StrategyStep(acc, t, tv) ==
    IF acc.error # "" THEN acc
    ELSE IF t.trade_time = NoTime THEN [acc EXCEPT !.error = "AttributeError"]
    ELSE LET strategy == StrategyOf(t)
             d == DateOf(t.trade_time)
             value == TradeValue(t)
             st == Get(acc.stats, strategy, EmptyStats)
             order == IF strategy \in DOMAIN acc.stats THEN acc.order ELSE Append(acc.order, strategy)
             gross == IF t.side = "BUY" THEN st.gross - value
                      ELSE IF t.side = "SELL" THEN st.gross + value
                      ELSE st.gross
             day_total == Get(tv.daily_buy, d, 0) + Get(tv.daily_sell, d, 0)
             charges == IF day_total > 0
                        THEN RatAdd(st.charges, Rat(DailyCharges(tv)[d] * value, day_total))
                        ELSE st.charges
         IN  [stats |-> Put(acc.stats, strategy,
                            [gross |-> gross, charges |-> charges, trades |-> st.trades + 1]),
              order |-> order,
              error |-> ""]

RECURSIVE StrategyLoop(_, _, _)
StrategyLoop(acc, trs, tv) ==
    IF trs = << >> THEN acc ELSE StrategyLoop(StrategyStep(acc, Head(trs), tv), Tail(trs), tv)

\* The unsorted output: one row per strategy, in the insertion order of stats.
StrategyRows(acc) ==
    [i \in 1..Len(acc.order) |->
        LET v == acc.stats[acc.order[i]]
        IN  [strategy |-> acc.order[i],
             pnl |-> RoundHalfEven(v.gross * v.charges.d - v.charges.n, v.charges.d),
             trades |-> v.trades]]

\* The output returned in the insertion order of stats, without the sort.
OutputUnsorted(rows) == rows

\* sorted(output, key=pnl, reverse=True): descending, and stable
RECURSIVE SortedByPnlDesc(_)
SortedByPnlDesc(rows) ==
    IF rows = << >> THEN << >>
    ELSE LET i == CHOOSE k \in 1..Len(rows) :
                    /\ \A j \in 1..Len(rows) : rows[k].pnl >= rows[j].pnl
                    /\ \A j \in 1..(k - 1) : rows[j].pnl < rows[k].pnl
         IN  <<rows[i]>> \o SortedByPnlDesc(SubSeq(rows, 1, i - 1) \o SubSeq(rows, i + 1, Len(rows)))

\* The response, or the exception that ends the request.
strategy_pnl(trs) ==
    LET tv == TurnoverLoop([daily_buy |-> EmptyDict, daily_sell |-> EmptyDict], trs)
        acc == StrategyLoop([stats |-> EmptyDict, order |-> << >>, error |-> ""], trs, tv)
    IN  IF acc.error # "" THEN [error |-> acc.error, output |-> << >>]
        ELSE [error |-> "", output |-> SortedByPnlDesc(StrategyRows(acc))]

(***************************************************************************)
(* The trades table and the account capital                                *)
(***************************************************************************)
SymNifty == StrNIFTY \o <<"2","4","C","E">>
SymTcs == <<"T","C","S">>

\* Day ordinals of 2024: Mon 29 Jan, Wed 31 Jan, Thu 1 Feb
TradeDays == <<28, 30, 31>>
Day1 == TradeDays[1]
Day2 == TradeDays[2]
Day3 == TradeDays[3]

TradeRows(symbols, sides, quantities, prices, times, finals, suggesteds) ==
    [symbol : symbols, side : sides, quantity : quantities, price : prices,
     trade_time : times, final_strategy : finals, suggested_strategy : suggesteds]

At(d) == [date |-> d, tod |-> 0]

\* One valid symbol, both sides, two prices (1.00 and 1.20), three dates.
LedgerTrades ==
    TradeRows({SymNifty}, {"BUY", "SELL"}, {1}, {100, 120},
              {At(Day1), At(Day2), At(Day3)}, {""}, {""})

\* Trades that may lack the symbol or the timestamp.
DefectTrades ==
    TradeRows({SymNifty, EmptyStr}, {"BUY", "SELL"}, {1}, {100},
              {NoTime, At(Day1), At(Day2)}, {""}, {""})

\* Trades of two strategies that may lack the symbol or the timestamp.
StrategyTrades ==
    TradeRows({SymNifty, EmptyStr}, {"BUY", "SELL"}, {1}, {100},
              {NoTime, At(Day1)}, {"", "Scalp"}, {""})

\* Two symbols, both sides, quantities 0 and 1, one date.
PositionTrades ==
    TradeRows({SymNifty, SymTcs}, {"BUY", "SELL"}, {0, 1}, {100},
              {At(Day1)}, {""}, {""})

\* One symbol, both sides, two prices, two dates.
RiskTrades ==
    TradeRows({SymNifty}, {"BUY", "SELL"}, {1}, {100, 120},
              {At(Day1), At(Day2)}, {""}, {""})

\* One symbol traded on three dates, twice a day on the first, with a side that
\* is an order type; a trade without a symbol and one without a timestamp.
DatedTrades ==
    TradeRows({SymNifty}, {"BUY", "SELL", "LIMIT"}, {1}, {100},
              {At(Day1), [date |-> Day1, tod |-> 1], At(Day2), At(Day3)}, {""}, {""})
    \cup TradeRows({EmptyStr}, {"BUY"}, {1}, {100}, {At(Day3)}, {""}, {""})
    \cup TradeRows({SymNifty}, {"BUY"}, {1}, {100}, {NoTime}, {""}, {""})

\* Two symbols at a price of their own, both sides, two dates.
PermutedTrades ==
    TradeRows({SymNifty}, {"BUY", "SELL"}, {1}, {100}, {At(Day1), At(Day2)}, {""}, {""})
    \cup TradeRows({SymTcs}, {"BUY", "SELL"}, {1}, {120}, {At(Day1), At(Day2)}, {""}, {""})

\* Day ordinals of 2024 in three ISO weeks and two months: Sat 27 Jan (week 4),
\* Wed 31 Jan and Thu 1 Feb (week 5), Mon 5 Feb (week 6)
WindowDays == <<26, 30, 31, 35>>

\* One symbol, both sides, one price, on the four window dates.
WindowTrades ==
    TradeRows({SymNifty}, {"BUY", "SELL"}, {1}, {100},
              {At(WindowDays[i]) : i \in 1..Len(WindowDays)}, {""}, {""})

\* An index option in quantities 1 and 2 at two prices on one date, and a stock
\* on the next.
ClosedTrades ==
    TradeRows({SymNifty}, {"BUY", "SELL"}, {1, 2}, {100, 120}, {At(Day1)}, {""}, {""})
    \cup TradeRows({SymTcs}, {"BUY", "SELL"}, {1}, {100}, {At(Day2)}, {""}, {""})

\* Trades of two strategies that all carry the symbol and a timestamp, on two
\* dates, with a side that may be an order type.
AllocationTrades ==
    TradeRows({SymNifty}, {"BUY", "SELL", "LIMIT"}, {1}, {100},
              {At(Day1), At(Day2)}, {"", "Scalp"}, {""})

\* Trades that may lack the symbol or the side, or carry a side in lower case,
\* at two prices on one date.
ReconcileTrades ==
    TradeRows({SymNifty, EmptyStr}, {"BUY", "SELL", "buy", "sell", ""}, {1}, {100, 120},
              {At(Day1)}, {""}, {""})

\* Capital baselines of -500.00, 0.00 and 1000.00
Capitals == {-50000, 0, 100000}

Days == {Day1, Day2, Day3}

(***************************************************************************)
(* models.py AccountSettings, services/capital_service.py                  *)
(***************************************************************************)
Callers == 1..MaxCallers

\* Payloads of POST /capital (Field(..., gt=0)): 1000.00 and 2000.00
CapitalPayloads == {100000, 200000}

\* None, where a row is expected
NoRow == [id |-> 0, capital |-> 0]

\* select(AccountSettings) ... .first(): without ORDER BY the store returns the
\* rows in an order of its choosing, so the first is any row; None on no row
FirstUnordered(table) ==
    IF table = << >> THEN {NoRow} ELSE {table[i] : i \in 1..Len(table)}

\* select(AccountSettings).order_by(AccountSettings.id.desc()) ... .first()
FirstByIdDesc(table) ==
    IF table = << >> THEN NoRow
    ELSE CHOOSE r \in {table[i] : i \in 1..Len(table)} :
             \A j \in 1..Len(table) : table[j].id <= r.id

\* row.capital if row else Decimal("0")
CapitalOf(row) == IF row = NoRow THEN 0 ELSE row.capital

\* The id the store gives to an inserted row (Integer primary key)
NextId(table) == IF table = << >> THEN 1 ELSE FirstByIdDesc(table).id + 1

\* A caller outside update_capital; capital keeps the payload of its last call
IdleCall == [pc |-> "idle", capital |-> 0, row |-> 0, loaded |-> 0]

InitWith(capitals) ==
    /\ trades = << >>
    /\ capital \in capitals
    /\ args = NoArgs
    /\ result = NoResult
    /\ account_settings = <<[id |-> 1, capital |-> capital]>>
    /\ calls = [c \in Callers |-> IdleCall]

\* crud.create_trade: one more row in the trades table
CreateTrade(rows) ==
    /\ Len(trades) < MaxTrades
    /\ \E t \in rows : trades' = Append(trades, t)
    /\ result' = [op |-> "create_trade"]
    /\ UNCHANGED <<capital, args, account_settings, calls>>

\* GET /pnl on any invocation date: pnl_summary(trades, capital, today), the
\* accumulators computed once for all dates
PnlSummary ==
    /\ LET account == FirstByIdDesc(account_settings)
           walk == EquityWalk(trades, CapitalOf(account))
       IN  /\ capital' = CapitalOf(account)
           /\ \E today \in Days :
                 result' = [op |-> "pnl_summary",
                            pnl |-> FinalResponse(walk, CapitalOf(account), today)]
    /\ UNCHANGED <<trades, args, account_settings, calls>>

\* GET /risk-usage on any invocation date: risk_usage(trades, capital, today)
RiskUsage ==
    /\ \E account \in FirstUnordered(account_settings) :
          LET walk == EquityWalk(trades, CapitalOf(account))
          IN  /\ capital' = CapitalOf(account)
              /\ \E today \in Days :
                    result' = [op |-> "risk_usage",
                               rows |-> RiskRows(FinalResponse(walk, CapitalOf(account), today).daily,
                                                 CapitalOf(account))]
    /\ UNCHANGED <<trades, args, account_settings, calls>>

\* GET /analytics/strategy-pnl
StrategyPnl ==
    /\ result' = [op |-> "strategy_pnl", response |-> strategy_pnl(trades)]
    /\ UNCHANGED <<trades, capital, args, account_settings, calls>>

\* A call of position_engine.calculate_positions on the trades
CalculatePositions ==
    /\ result' = [op |-> "calculate_positions", positions |-> calculate_positions(trades)]
    /\ UNCHANGED <<trades, capital, args, account_settings, calls>>

\* GET /positions
GetRealizedPositions ==
    /\ result' = [op |-> "get_realized_positions",
                  error |-> RoutePositionsError(trades),
                  positions |-> IF RoutePositionsError(trades) = ""
                                THEN get_realized_positions(trades) ELSE << >>]
    /\ UNCHANGED <<trades, capital, args, account_settings, calls>>

\* update_capital, lines 14-15: the request of caller c enters with a payload
\* and reads the first row
UpdateCapitalSelect(c) ==
    /\ calls[c].pc = "idle"
    /\ \E payload \in CapitalPayloads, row \in FirstUnordered(account_settings) :
          calls' = [calls EXCEPT ![c] = [pc |-> "selected", capital |-> payload,
                                         row |-> row.id, loaded |-> row.capital]]
    /\ UNCHANGED <<trades, capital, args, result, account_settings>>

\* update_capital, lines 17-23: row.capital = capital on the row read, or a new
\* row, then commit. The flush inserts the new row, or updates the row by its
\* primary key when the capital differs from the one loaded.
UpdateCapitalCommit(c) ==
    /\ calls[c].pc = "selected"
    /\ IF calls[c].row = 0
       THEN /\ account_settings' = Append(account_settings,
                                          [id |-> NextId(account_settings),
                                           capital |-> calls[c].capital])
            /\ calls' = [calls EXCEPT ![c].pc = "committed",
                                      ![c].row = NextId(account_settings)]
       ELSE /\ account_settings' =
                   IF calls[c].capital = calls[c].loaded THEN account_settings
                   ELSE [i \in 1..Len(account_settings) |->
                           IF account_settings[i].id = calls[c].row
                           THEN [account_settings[i] EXCEPT !.capital = calls[c].capital]
                           ELSE account_settings[i]]
            /\ calls' = [calls EXCEPT ![c].pc = "committed"]
    /\ UNCHANGED <<trades, capital, args, result>>

\* update_capital, lines 24-25, and save_capital: the row is read again by its
\* primary key and its capital returned
UpdateCapitalReturn(c) ==
    /\ calls[c].pc = "committed"
    /\ \E i \in 1..Len(account_settings) :
          /\ account_settings[i].id = calls[c].row
          /\ result' = [op |-> "save_capital", capital |-> account_settings[i].capital]
    /\ calls' = [calls EXCEPT ![c] = [IdleCall EXCEPT !.capital = calls[c].capital]]
    /\ UNCHANGED <<trades, capital, args, account_settings>>

\* GET /capital: capital_service.get_capital
ReadCapital ==
    /\ \E row \in FirstUnordered(account_settings) : capital' = CapitalOf(row)
    /\ result' = [op |-> "read_capital", capital |-> capital']
    /\ UNCHANGED <<trades, args, account_settings, calls>>

\* GET /settings/capital
SettingsCapital ==
    /\ capital' = CapitalOf(FirstByIdDesc(account_settings))
    /\ result' = [op |-> "settings.get_capital", capital |-> capital']
    /\ UNCHANGED <<trades, args, account_settings, calls>>

\* The ledger aggregator and the equity walk, behind GET /pnl
Init == InitWith(Capitals)
Next == CreateTrade(LedgerTrades) \/ PnlSummary
Spec == Init /\ [][Next]_vars

\* The risk percentages of the engine and of GET /risk-usage
InitRisk == InitWith(Capitals)
NextRisk == CreateTrade(RiskTrades) \/ PnlSummary \/ RiskUsage
SpecRisk == InitRisk /\ [][NextRisk]_vars

\* The ledger over trades with data defects
InitDefects == InitWith({100000})
NextDefects == CreateTrade(DefectTrades) \/ PnlSummary
SpecDefects == InitDefects /\ [][NextDefects]_vars

\* The strategy cost allocator
InitStrategy == InitWith({100000})
NextStrategy == CreateTrade(StrategyTrades) \/ StrategyPnl
SpecStrategy == InitStrategy /\ [][NextStrategy]_vars

\* The two position reconcilers, beside the ledger
InitPositions == InitWith({100000})
NextPositions == CreateTrade(PositionTrades) \/ CalculatePositions \/ GetRealizedPositions \/ PnlSummary
SpecPositions == InitPositions /\ [][NextPositions]_vars

\* The ledger and the position reconcilers over a capital that the losses can exceed
InitNonNeg == InitWith({0, 100000})
NextNonNeg == CreateTrade(PositionTrades) \/ PnlSummary \/ CalculatePositions \/ GetRealizedPositions
SpecNonNeg == InitNonNeg /\ [][NextNonNeg]_vars

\* The dates of the ledger, over trades in any order of their timestamps
InitDates == InitWith({100000})
NextDates == CreateTrade(DatedTrades) \/ PnlSummary
SpecDates == InitDates /\ [][NextDates]_vars

\* The ledger over trades of two symbols in every order
InitPermuted == InitWith({100000})
NextPermuted == CreateTrade(PermutedTrades) \/ PnlSummary
SpecPermuted == InitPermuted /\ [][NextPermuted]_vars

\* The time filters of the summary, over dates of several weeks and months
InitWindows == InitWith({100000})
NextWindows == CreateTrade(WindowTrades) \/ PnlSummary
SpecWindows == InitWindows /\ [][NextWindows]_vars

\* The position engine beside the ledger, over positions that close
InitClosed == InitWith({100000})
NextClosed == CreateTrade(ClosedTrades) \/ CalculatePositions \/ PnlSummary
SpecClosed == InitClosed /\ [][NextClosed]_vars

\* The strategy cost allocator beside the ledger, over trades of any side
InitAllocation == InitWith({100000})
NextAllocation == CreateTrade(AllocationTrades) \/ StrategyPnl \/ PnlSummary
SpecAllocation == InitAllocation /\ [][NextAllocation]_vars

\* Concurrent requests of POST /capital on a new database, beside the readers
\* of the capital
InitCapital ==
    /\ trades = << >>
    /\ capital = 0
    /\ args = NoArgs
    /\ result = NoResult
    /\ account_settings = << >>
    /\ calls = [c \in Callers |-> IdleCall]
NextCapital ==
    \/ \E c \in Callers : UpdateCapitalSelect(c)
    \/ \E c \in Callers : UpdateCapitalCommit(c)
    \/ \E c \in Callers : UpdateCapitalReturn(c)
    \/ ReadCapital
    \/ SettingsCapital
    \/ PnlSummary
    \/ RiskUsage
SpecCapital == InitCapital /\ [][NextCapital]_vars

\* The two position reconcilers over trades with defects
InitReconcile == InitWith({100000})
NextReconcile == CreateTrade(ReconcileTrades) \/ CalculatePositions \/ GetRealizedPositions
SpecReconcile == InitReconcile /\ [][NextReconcile]_vars

(***************************************************************************)
(* Direct calls of the pure functions                                      *)
(***************************************************************************)
RECURSIVE Concat(_)
Concat(ss) == IF ss = << >> THEN << >> ELSE Head(ss) \o Concat(Tail(ss))

SymbolFragments ==
    { <<"B","A","N","K">>, <<"F","I","N">>, StrNIFTY, StrSENSEX,
      <<"n","i","f","t","y">>, <<"2","4">>, <<"C","E">> }

\* Symbols made of at most MaxFragments fragments; the empty one stands for None and "".
SymbolArgs ==
    { Concat(ss) : ss \in UNION { [1..n -> SymbolFragments] : n \in 0..MaxFragments } }

\* Turnovers of 0, 25, 50, ... rupees, in paise.
TurnoverArgs == { i * 2500 : i \in 0..MaxTurnoverSteps }

InitLot ==
    /\ trades = << >>
    /\ capital = 0
    /\ args \in [fn : {"get_lot_size"}, symbol : SymbolArgs]
    /\ result = NoResult
    /\ account_settings = << >>
    /\ calls = [c \in Callers |-> IdleCall]

\* services/pnl_engine.py get_lot_size
CallPnlLotSize ==
    /\ result = NoResult
    /\ result' = [op |-> "pnl_engine.get_lot_size", value |-> get_lot_size(args.symbol)]
    /\ UNCHANGED <<trades, capital, args, account_settings, calls>>

\* services/position_engine.py get_lot_size (the same code)
CallPositionLotSize ==
    /\ result = NoResult
    /\ result' = [op |-> "position_engine.get_lot_size", value |-> position_get_lot_size(args.symbol)]
    /\ UNCHANGED <<trades, capital, args, account_settings, calls>>

NextLot == CallPnlLotSize \/ CallPositionLotSize

SpecLot == InitLot /\ [][NextLot]_vars

InitCharges ==
    /\ trades = << >>
    /\ capital = 0
    /\ args \in [fn : {"calculate_charges"}, buy_turnover : TurnoverArgs, sell_turnover : TurnoverArgs]
    /\ result = NoResult
    /\ account_settings = << >>
    /\ calls = [c \in Callers |-> IdleCall]

CallCalculateCharges ==
    /\ result = NoResult
    /\ result' = [op |-> "calculate_charges",
                  charges |-> calculate_charges(args.buy_turnover, args.sell_turnover)]
    /\ UNCHANGED <<trades, capital, args, account_settings, calls>>

NextCharges == CallCalculateCharges

SpecCharges == InitCharges /\ [][NextCharges]_vars

(***************************************************************************)
(* Properties                                                              *)
(***************************************************************************)
\* The peak equity of a daily entry, reconstructed from what it emits
PeakOf(e) == e.equity - e.drawdown

\* The trades that carry both a timestamp and a symbol
HasTimeAndSymbol(t) == t.trade_time # NoTime /\ ~IsFalsyStr(t.symbol)
WithoutDefects(trs) == SelectSeq(trs, HasTimeAndSymbol)

\* The total quantity of the trades of one symbol and one side
RECURSIVE TotalQty(_, _, _)
TotalQty(trs, symbol, side) ==
    IF trs = << >> THEN 0
    ELSE (IF Head(trs).symbol = symbol /\ Head(trs).side = side THEN Head(trs).quantity ELSE 0)
         + TotalQty(Tail(trs), symbol, side)

\* The multiplier of the longest registered key contained in the upper-cased
\* symbol, 1 when there is none
LongestKeyMultiplier(symbol) ==
    IF IsFalsyStr(symbol) THEN 1
    ELSE LET s == Upper(symbol)
             hit == {i \in 1..Len(LOT_SIZES) : Contains(LOT_SIZES[i].key, s)}
         IN  IF hit = {} THEN 1
             ELSE LOT_SIZES[CHOOSE i \in hit :
                     \A j \in hit : Len(LOT_SIZES[i].key) >= Len(LOT_SIZES[j].key)].size

\* C1: every daily entry of aggregate_pnl has drawdown <= 0, and the peak equity
\* reconstructed as equity - drawdown never falls from one entry to the next and
\* is never below the capital.
C1_DrawdownAndPeak ==
    result.op = "pnl_summary" =>
        LET daily == result.pnl.daily
        IN  \A i \in 1..Len(daily) :
              /\ daily[i].drawdown <= 0
              /\ PeakOf(daily[i]) >= capital
              /\ i > 1 => PeakOf(daily[i - 1]) <= PeakOf(daily[i])

\* A ledger of three days: the peak rises from the first to the second, and the
\* third is below the peak.
C1_Witness ==
    /\ result.op = "pnl_summary"
    /\ Len(result.pnl.daily) = 3
    /\ PeakOf(result.pnl.daily[1]) > capital
    /\ PeakOf(result.pnl.daily[2]) > PeakOf(result.pnl.daily[1])
    /\ result.pnl.daily[3].drawdown < 0

\* C2: the total that calculate_charges emits is the sum of the five rounded
\* components it emits.
C2_TotalIsSumOfRounded ==
    result.op = "calculate_charges" =>
        result.charges.total = result.charges.brokerage + result.charges.exchange
                               + result.charges.sebi + result.charges.stamp + result.charges.gst

\* C3: get_lot_size returns the multiplier of the longest registered key the
\* upper-cased symbol contains, and 1 when it contains none or is empty.
C3_LongestKeyWins ==
    result.op \in {"pnl_engine.get_lot_size", "position_engine.get_lot_size"} =>
        result.value = LongestKeyMultiplier(args.symbol)

\* C4: the sum of the emitted daily net_pnl differs from the emitted
\* summary.net_total by at most one paisa per daily entry.
C4_DailyNetSumsToNetTotal ==
    result.op = "pnl_summary" =>
        LET daily == result.pnl.daily
            total == SumSeq([i \in 1..Len(daily) |-> daily[i].net_pnl])
        IN  Abs(total - result.pnl.summary.net_total) <= Len(daily)

\* A ledger of at least two days, one with a gain and one with a loss.
C4_Witness ==
    /\ result.op = "pnl_summary"
    /\ Len(result.pnl.daily) >= 2
    /\ \E i, j \in 1..Len(result.pnl.daily) :
         result.pnl.daily[i].net_pnl > 0 /\ result.pnl.daily[j].net_pnl < 0
    /\ result.pnl.summary.net_total # 0

\* C5: the emitted remaining_capital is the emitted capital plus the emitted
\* net_total.
C5_RemainingCapital ==
    result.op = "pnl_summary" =>
        result.pnl.summary.remaining_capital
            = result.pnl.summary.capital + result.pnl.summary.net_total

\* A summary over a positive capital with charges paid and a net total that is not 0.
C5_Witness ==
    /\ result.op = "pnl_summary"
    /\ capital > 0
    /\ result.pnl.summary.capital = capital
    /\ result.pnl.summary.charges_total > 0
    /\ result.pnl.summary.net_total # 0
    /\ result.pnl.summary.remaining_capital # capital

\* C6: both position reconcilers emit a summary for a symbol exactly when its
\* total BUY quantity and its total SELL quantity are both positive, and the
\* ledger's gross_pnl of a day that holds only BUY trades, of a positive value,
\* is negative.
C6_PositionIffBothSides ==
    /\ result.op \in {"calculate_positions", "get_realized_positions"} =>
         /\ \A i \in 1..Len(trades) :
              (\E k \in 1..Len(result.positions) : result.positions[k].symbol = trades[i].symbol)
              <=> (TotalQty(trades, trades[i].symbol, "BUY") > 0
                   /\ TotalQty(trades, trades[i].symbol, "SELL") > 0)
         /\ \A k \in 1..Len(result.positions) :
              \E i \in 1..Len(trades) : trades[i].symbol = result.positions[k].symbol
    /\ result.op = "pnl_summary" =>
         \A k \in 1..Len(result.pnl.daily) :
            LET e == result.pnl.daily[k]
                on == {i \in 1..Len(trades) :
                         HasTimeAndSymbol(trades[i]) /\ DateStr(DateOf(trades[i].trade_time)) = e.date}
            IN  ((\A i \in on : trades[i].side = "BUY")
                 /\ (\E i \in on : TradeValue(trades[i]) > 0))
                => e.gross_pnl < 0

\* One symbol bought and sold, another only bought: one summary, for the first.
C6_Witness ==
    /\ result.op = "calculate_positions"
    /\ Len(result.positions) = 1
    /\ \E i \in 1..Len(trades) :
         /\ trades[i].symbol # result.positions[1].symbol
         /\ trades[i].side = "BUY"
         /\ trades[i].quantity > 0

\* C7: a negative capital is rejected before any ledger computation: with
\* capital < 0 neither GET /pnl nor GET /risk-usage returns a daily entry
\* computed from the trades.
C7_NegativeCapitalRejected ==
    capital < 0 =>
        /\ result.op = "pnl_summary" => result.pnl.daily = << >>
        /\ result.op = "risk_usage" => result.rows = << >>

\* C8: with a capital <= 0 every risk_pct is 0, in the daily entries of
\* aggregate_pnl and in the rows of GET /risk-usage.
C8_RiskPctZeroWithoutCapital ==
    capital <= 0 =>
        /\ result.op = "pnl_summary" =>
             \A i \in 1..Len(result.pnl.daily) : result.pnl.daily[i].risk_pct = 0
        /\ result.op = "risk_usage" =>
             \A i \in 1..Len(result.rows) : result.rows[i].risk_pct = 0

\* A ledger over a capital of 0 with two days of net PnL that is not 0.
C8_Witness ==
    /\ capital = 0
    /\ result.op = "pnl_summary"
    /\ Len(result.pnl.daily) = 2
    /\ \A i \in 1..Len(result.pnl.daily) : result.pnl.daily[i].net_pnl # 0

\* C9: the strategy allocator raises no error for a trade without a timestamp or
\* without a symbol, and its output is the output for the trades without it.
C9_DefectsIgnoredByAllocator ==
    result.op = "strategy_pnl" =>
        /\ result.response.error = ""
        /\ result.response.output = strategy_pnl(WithoutDefects(trades)).output

\* C10: the output of aggregate_pnl is its output on the trades that carry a
\* timestamp and a symbol: the others change nothing.
C10_DefectsIgnoredByLedger ==
    result.op = "pnl_summary" =>
        \E today \in Days : result.pnl = aggregate_pnl(WithoutDefects(trades), capital, today)

\* A ledger of a trade set that holds a trade without a timestamp, a trade
\* without a symbol and a trade with both.
C10_Witness ==
    /\ result.op = "pnl_summary"
    /\ Len(result.pnl.daily) >= 1
    /\ \E i, j, k \in 1..Len(trades) :
         /\ trades[i].trade_time = NoTime /\ ~IsFalsyStr(trades[i].symbol)
         /\ IsFalsyStr(trades[j].symbol) /\ trades[j].trade_time # NoTime
         /\ HasTimeAndSymbol(trades[k])

\* The charge components and the total of one charges record are all >= 0
ChargesNonNegative(c) ==
    /\ c.brokerage >= 0 /\ c.exchange >= 0 /\ c.sebi >= 0
    /\ c.stamp >= 0 /\ c.gst >= 0 /\ c.total >= 0

\* C11 (as stated): with non-negative quantities and prices and capital >= 0, each
\* charge component and total, each daily equity, summary.remaining_capital and
\* each position avg_price is >= 0.
C11_EmittedQuantitiesNonNegative ==
    capital >= 0 =>
        /\ result.op = "pnl_summary" =>
             /\ \A i \in 1..Len(result.pnl.daily) :
                   /\ ChargesNonNegative(result.pnl.daily[i].charges)
                   /\ result.pnl.daily[i].equity >= 0
             /\ result.pnl.summary.remaining_capital >= 0
        /\ result.op \in {"calculate_positions", "get_realized_positions"} =>
             \A k \in 1..Len(result.positions) : result.positions[k].avg_price >= 0

\* C11 (amended): with non-negative quantities and prices and capital >= 0, each
\* charge component and total, the summary's charges_total and each position
\* avg_price is >= 0; the daily equity and the remaining capital are not bounded
\* below by 0.
C11_ChargesAndAvgPriceNonNegative ==
    capital >= 0 =>
        /\ result.op = "pnl_summary" =>
             /\ \A i \in 1..Len(result.pnl.daily) :
                   ChargesNonNegative(result.pnl.daily[i].charges)
             /\ result.pnl.summary.charges_total >= 0
        /\ result.op \in {"calculate_positions", "get_realized_positions"} =>
             \A k \in 1..Len(result.positions) : result.positions[k].avg_price >= 0

\* A position bought once and sold twice, with a positive average price.
C11_Witness ==
    /\ capital >= 0
    /\ result.op = "calculate_positions"
    /\ \E k \in 1..Len(result.positions) :
         /\ result.positions[k].avg_price > 0
         /\ result.positions[k].net_qty < 0

\* C12: a second run of aggregate_pnl on the same trade snapshot and the same
\* capital returns what the first returned, whatever the two invocation dates.
C12_SameOutputOnAnyDate ==
    [][(result.op = "pnl_summary" /\ result'.op = "pnl_summary"
        /\ trades' = trades /\ capital' = capital)
       => result'.pnl = result.pnl]_vars

\* The ledger of the empty trade set, whose window reference date is the
\* invocation date.
C12_Witness ==
    /\ result.op = "pnl_summary"
    /\ trades = << >>
    /\ result.pnl.daily = << >>
    /\ capital # 0

\* C13: for the empty trade set aggregate_pnl returns daily = [] and a summary
\* whose today, this_week, this_month, gross_total, charges_total, net_total and
\* max_drawdown are 0 and whose remaining_capital is the capital passed in.
C13_EmptyTradeSet ==
    (result.op = "pnl_summary" /\ trades = << >>) =>
        /\ result.pnl.daily = << >>
        /\ result.pnl.summary.today = 0
        /\ result.pnl.summary.this_week = 0
        /\ result.pnl.summary.this_month = 0
        /\ result.pnl.summary.gross_total = 0
        /\ result.pnl.summary.charges_total = 0
        /\ result.pnl.summary.net_total = 0
        /\ result.pnl.summary.max_drawdown = 0
        /\ result.pnl.summary.remaining_capital = capital

\* The ledger of the empty trade set over a positive capital.
C13_Witness ==
    /\ result.op = "pnl_summary"
    /\ trades = << >>
    /\ capital > 0
    /\ result.pnl.summary.capital = capital

\* "YYYY-MM-DD" a before "YYYY-MM-DD" b
DateStrBefore(a, b) ==
    \/ a.year < b.year
    \/ a.year = b.year /\ a.month < b.month
    \/ a.year = b.year /\ a.month = b.month /\ a.day < b.day

\* The calendar dates on which a trade with a symbol, a timestamp and side BUY or
\* SELL exists
ContributingDates(trs) ==
    { DateStr(trs[i].trade_time.date) :
        i \in {k \in 1..Len(trs) : HasTimeAndSymbol(trs[k]) /\ trs[k].side \in {"BUY", "SELL"}} }

\* C14: the daily ledger holds exactly one entry per calendar date with a trade
\* that has a symbol, a timestamp and side BUY or SELL, none for another date, in
\* strictly ascending date order whatever the order of the trades.
C14_OneEntryPerTradedDate ==
    result.op = "pnl_summary" =>
        LET daily == result.pnl.daily
        IN  /\ {daily[i].date : i \in 1..Len(daily)} = ContributingDates(trades)
            /\ Len(daily) = Cardinality(ContributingDates(trades))
            /\ \A i \in 1..(Len(daily) - 1) : DateStrBefore(daily[i].date, daily[i + 1].date)

\* Trades entered latest date first, two of them on one date at different times,
\* and a third date that holds only a trade whose side is not BUY or SELL.
C14_Witness ==
    /\ result.op = "pnl_summary"
    /\ Len(trades) = 3
    /\ Len(result.pnl.daily) = 1
    /\ trades[1].side = "LIMIT" /\ HasTimeAndSymbol(trades[1])
    /\ HasTimeAndSymbol(trades[2]) /\ HasTimeAndSymbol(trades[3])
    /\ trades[1].trade_time.date > trades[2].trade_time.date
    /\ trades[2].trade_time.date = trades[3].trade_time.date
    /\ trades[2].trade_time.tod > trades[3].trade_time.tod

\* C15: the output list of the strategy allocator is in non-increasing order of
\* the emitted pnl.
C15_OutputSortedByPnl ==
    (result.op = "strategy_pnl" /\ result.response.error = "") =>
        LET output == result.response.output
        IN  \A i \in 1..(Len(output) - 1) : output[i].pnl >= output[i + 1].pnl

\* Two strategies, the one met first in the trades with the lower pnl.
C15_Witness ==
    /\ result.op = "strategy_pnl"
    /\ result.response.error = ""
    /\ Len(result.response.output) = 2
    /\ result.response.output[1].pnl > result.response.output[2].pnl
    /\ StrategyOf(trades[1]) = result.response.output[2].strategy

\* The permutations of 1..n
IndexPermutations(n) ==
    { f \in [1..n -> 1..n] : \A i, j \in 1..n : f[i] = f[j] => i = j }

\* C16: the output of aggregate_pnl, daily entries and summary, is the same for
\* every permutation of the input trades.
C16_PermutationInvariant ==
    result.op = "pnl_summary" =>
        \A f \in IndexPermutations(Len(trades)) :
            \E today \in Days :
                aggregate_pnl([i \in 1..Len(trades) |-> trades[f[i]]], capital, today) = result.pnl

\* Three trades of two symbols, the trade of the later date entered first, and
\* two symbols traded on one date.
C16_Witness ==
    /\ result.op = "pnl_summary"
    /\ Len(trades) = 3
    /\ Len(result.pnl.daily) = 2
    /\ trades[1].trade_time.date > trades[2].trade_time.date
    /\ trades[2].trade_time.date = trades[3].trade_time.date
    /\ trades[2].symbol # trades[3].symbol
    /\ result.pnl.daily[1].net_pnl # result.pnl.daily[2].net_pnl

\* The sum of qty * price * lot size over the trades of one side that carry a
\* timestamp of the calendar date `date` and a symbol
RECURSIVE SideTurnover(_, _, _)
SideTurnover(trs, date, side) ==
    IF trs = << >> THEN 0
    ELSE LET t == Head(trs)
         IN  (IF HasTimeAndSymbol(t) /\ DateStr(t.trade_time.date) = date /\ t.side = side
              THEN t.quantity * t.price * get_lot_size(t.symbol)
              ELSE 0)
             + SideTurnover(Tail(trs), date, side)

\* C17: for every date of the ledger, net_pnl is the SELL turnover minus the BUY
\* turnover of the date (qty * price * lot size, all symbols together) minus the
\* total of calculate_charges on these two turnovers; gross_pnl is the difference
\* of the turnovers.
C17_NetIsGrossMinusDayCharges ==
    result.op = "pnl_summary" =>
        \A i \in 1..Len(result.pnl.daily) :
            LET e == result.pnl.daily[i]
                buy == SideTurnover(trades, e.date, "BUY")
                sell == SideTurnover(trades, e.date, "SELL")
            IN  /\ e.gross_pnl = sell - buy
                /\ e.net_pnl = (sell - buy) - calculate_charges(buy, sell).total

\* A date on which two symbols of different lot sizes were traded, one bought
\* and one sold.
C17_Witness ==
    /\ result.op = "pnl_summary"
    /\ Len(result.pnl.daily) >= 1
    /\ \E i, j \in 1..Len(trades) :
         /\ trades[i].trade_time.date = trades[j].trade_time.date
         /\ trades[i].symbol = SymNifty /\ trades[i].side = "BUY"
         /\ trades[j].symbol = SymTcs /\ trades[j].side = "SELL"
         /\ DateStr(trades[i].trade_time.date) = result.pnl.daily[1].date
    /\ result.pnl.daily[1].charges.brokerage = 2 * BROKERAGE_PER_ORDER

\* The number of legs, buy and sell, with a positive turnover
PositiveLegs(buy_turnover, sell_turnover) ==
    (IF buy_turnover > 0 THEN 1 ELSE 0) + (IF sell_turnover > 0 THEN 1 ELSE 0)

\* C18: for non-negative turnovers calculate_charges returns brokerage = 20 per
\* leg with a positive turnover, stamp = buy turnover * 0.00003 whatever the sell
\* turnover, gst = 0.18 * (brokerage + turnover * 0.00053) with nothing from the
\* regulatory charge or the stamp duty (each to 2 decimals), and only zeros when
\* both turnovers are 0.
C18_ChargeComponents ==
    result.op = "calculate_charges" =>
        LET c == result.charges
            buy == args.buy_turnover
            sell == args.sell_turnover
            legs == PositiveLegs(buy, sell)
        IN  /\ c.brokerage = 2000 * legs
            /\ c.stamp = RoundHalfEven(buy * 3, 100000)
            /\ c.gst = 360 * legs + RoundHalfEven((buy + sell) * 954, 10000000)
            /\ (buy = 0 /\ sell = 0) =>
                 /\ c.brokerage = 0 /\ c.exchange = 0 /\ c.sebi = 0
                 /\ c.stamp = 0 /\ c.gst = 0 /\ c.total = 0

\* Charges on two legs whose stamp duty and exchange charge round to a paisa or more.
C18_Witness ==
    /\ result.op = "calculate_charges"
    /\ args.buy_turnover > 0 /\ args.sell_turnover > 0
    /\ result.charges.brokerage = 4000
    /\ result.charges.stamp > 0
    /\ result.charges.exchange > 0
    /\ result.charges.gst > 720

\* The least of 0 and the drawdowns of the daily entries
RECURSIVE MinDrawdown(_)
MinDrawdown(daily) ==
    IF daily = << >> THEN 0
    ELSE LET m == MinDrawdown(Tail(daily))
         IN  IF Head(daily).drawdown < m THEN Head(daily).drawdown ELSE m

\* C19: in output order each entry's equity is the capital plus the net PnL of
\* the entry and of all earlier entries, the last equity is
\* summary.remaining_capital, and summary.max_drawdown is the minimum of 0 and
\* the daily drawdowns.
C19_EquityWalk ==
    result.op = "pnl_summary" =>
        LET daily == result.pnl.daily
        IN  /\ \A i \in 1..Len(daily) :
                  daily[i].equity = capital + SumSeq([j \in 1..i |-> daily[j].net_pnl])
            /\ daily # << >> =>
                  daily[Len(daily)].equity = result.pnl.summary.remaining_capital
            /\ result.pnl.summary.max_drawdown = MinDrawdown(daily)

\* A ledger of three dates whose deepest drawdown is on the second.
C19_Witness ==
    /\ result.op = "pnl_summary"
    /\ Len(result.pnl.daily) = 3
    /\ capital > 0
    /\ result.pnl.daily[2].drawdown < result.pnl.daily[1].drawdown
    /\ result.pnl.daily[3].drawdown > result.pnl.daily[2].drawdown
    /\ result.pnl.summary.max_drawdown = result.pnl.daily[2].drawdown

\* C20: calculate_positions and GET /positions complete without a division by
\* zero, and the realized quantity of each emitted summary is the minimum of the
\* total BUY and the total SELL quantity of its symbol, above 0 and at most their
\* maximum.
C20_RealizedQuantity ==
    /\ result.op = "get_realized_positions" =>
         /\ result.error = ""
         /\ \A k \in 1..Len(result.positions) :
              LET e == result.positions[k]
                  b == TotalQty(trades, e.symbol, "BUY")
                  s == TotalQty(trades, e.symbol, "SELL")
              IN  /\ e.realized_qty = (IF b <= s THEN b ELSE s)
                  /\ 0 < e.realized_qty
                  /\ e.realized_qty <= (IF b >= s THEN b ELSE s)
    /\ result.op = "calculate_positions" =>
         \A k \in 1..Len(result.positions) :
            LET e == result.positions[k]
                b == TotalQty(trades, e.symbol, "BUY")
                s == TotalQty(trades, e.symbol, "SELL")
            IN  /\ e.lots = (IF b <= s THEN b ELSE s)
                /\ 0 < e.lots
                /\ e.lots <= (IF b >= s THEN b ELSE s)

\* GET /positions over a symbol bought twice and sold once: one summary, of
\* realized quantity 1.
C20_Witness ==
    /\ result.op = "get_realized_positions"
    /\ result.error = ""
    /\ Len(result.positions) = 1
    /\ result.positions[1].realized_qty = 1
    /\ TotalQty(trades, result.positions[1].symbol, "BUY") = 2

\* The sum of net_pnl over the daily entries of the index set I
RECURSIVE NetOver(_, _)
NetOver(daily, I) ==
    IF I = {} THEN 0
    ELSE LET i == CHOOSE k \in I : TRUE IN daily[i].net_pnl + NetOver(daily, I \ {i})

\* C21: with a daily entry, summary.today is the net_pnl of the last entry,
\* this_week the sum of net_pnl over the entries of the ISO (year, week) of the
\* last entry's date, this_month the sum over the entries of its year and
\* month; the last entry is in all three.
C21_TimeWindows ==
    (result.op = "pnl_summary" /\ result.pnl.daily # << >>) =>
        LET daily == result.pnl.daily
            n == Len(daily)
            last == daily[n].date
            week == {i \in 1..n : IsoYearWeek(FromIsoFormat(daily[i].date))
                                    = IsoYearWeek(FromIsoFormat(last))}
            month == {i \in 1..n : daily[i].date.year = last.year /\ daily[i].date.month = last.month}
        IN  /\ result.pnl.summary.today = daily[n].net_pnl
            /\ result.pnl.summary.this_week = NetOver(daily, week)
            /\ result.pnl.summary.this_month = NetOver(daily, month)
            /\ n \in week /\ n \in month

\* A ledger of Sat 27 Jan, Wed 31 Jan and Thu 1 Feb: the week of the last date
\* holds two entries, its month one, and the three sums differ from the net total.
C21_Witness ==
    /\ result.op = "pnl_summary"
    /\ Len(result.pnl.daily) = 3
    /\ result.pnl.daily[3].date = [year |-> 2024, month |-> 2, day |-> 1]
    /\ result.pnl.daily[1].date = [year |-> 2024, month |-> 1, day |-> 27]
    /\ result.pnl.summary.this_week = result.pnl.daily[2].net_pnl + result.pnl.daily[3].net_pnl
    /\ result.pnl.summary.this_month = result.pnl.daily[3].net_pnl
    /\ result.pnl.summary.this_week # result.pnl.summary.net_total

\* The ledger's sell value minus buy value of one symbol, over all dates: the sum
\* of qty * price * lot size over its SELL trades minus that over its BUY trades
RECURSIVE SymbolLedgerNet(_, _)
SymbolLedgerNet(trs, symbol) ==
    IF trs = << >> THEN 0
    ELSE LET t == Head(trs)
             value == t.quantity * t.price * get_lot_size(t.symbol)
         IN  (IF t.symbol # symbol \/ ~HasTimeAndSymbol(t) THEN 0
              ELSE IF t.side = "SELL" THEN value
              ELSE IF t.side = "BUY" THEN -value
              ELSE 0)
             + SymbolLedgerNet(Tail(trs), symbol)

\* C22: for a symbol whose total BUY quantity equals its total SELL quantity the
\* position's realized_pnl_amount is the ledger's sell value minus buy value of
\* the symbol, and when the trades are all of that symbol on one date it is that
\* date's gross_pnl.
C22_PositionAmountIsLedgerNet ==
    /\ result.op = "calculate_positions" =>
         \A k \in 1..Len(result.positions) :
            LET e == result.positions[k]
            IN  TotalQty(trades, e.symbol, "BUY") = TotalQty(trades, e.symbol, "SELL")
                => e.realized_pnl_amount = SymbolLedgerNet(trades, e.symbol)
    /\ result.op = "pnl_summary" =>
         LET positions == calculate_positions(trades)
         IN  (/\ Len(result.pnl.daily) = 1
              /\ Len(positions) = 1
              /\ \A i \in 1..Len(trades) : trades[i].symbol = positions[1].symbol
              /\ TotalQty(trades, positions[1].symbol, "BUY")
                 = TotalQty(trades, positions[1].symbol, "SELL"))
             => result.pnl.daily[1].gross_pnl = positions[1].realized_pnl_amount

\* An index option bought twice at two prices and sold once in the quantity of
\* both: a closed position with an amount that is not 0.
C22_Witness ==
    /\ result.op = "calculate_positions"
    /\ Len(trades) = 3
    /\ Len(result.positions) = 1
    /\ result.positions[1].symbol = SymNifty
    /\ result.positions[1].lot_size = 75
    /\ TotalQty(trades, SymNifty, "BUY") = 2
    /\ TotalQty(trades, SymNifty, "SELL") = 2
    /\ result.positions[1].realized_pnl_amount > 0
    /\ \E i, j \in 1..3 : trades[i].side = "BUY" /\ trades[j].side = "BUY"
                           /\ trades[i].price # trades[j].price

\* The accumulators of the allocator's two passes over the trades
AllocatorTurnover(trs) == TurnoverLoop([daily_buy |-> EmptyDict, daily_sell |-> EmptyDict], trs)
AllocatorStats(trs, tv) == StrategyLoop([stats |-> EmptyDict, order |-> << >>, error |-> ""], trs, tv)

\* The sum over the strategies of f(stats[strategy]), an exact quotient
RECURSIVE RatSumOver(_, _, _)
RatSumOver(f(_), stats, S) ==
    IF S = {} THEN Rat(0, 1)
    ELSE LET k == CHOOSE x \in S : TRUE
         IN  RatAdd(f(stats[k]), RatSumOver(f, stats, S \ {k}))

UnroundedPnl(v) == RatAdd(Rat(v.gross, 1), Rat(-v.charges.n, v.charges.d))
ChargesOf(v) == v.charges

\* C23: when every trade carries a symbol and a timestamp, the unrounded pnl of
\* the strategies sums to the ledger's unrounded net total, and the allocator's
\* turnover and charge total of each date are the ledger's.
C23_AllocatorMatchesLedger ==
    (result.op = "strategy_pnl" /\ \A i \in 1..Len(trades) : HasTimeAndSymbol(trades[i])) =>
        LET tv == AllocatorTurnover(trades)
            acc == AllocatorStats(trades, tv)
            tl == TradeLoop([ledger |-> EmptyDict, daily_buy |-> EmptyDict,
                             daily_sell |-> EmptyDict], trades)
            walk == EquityWalk(trades, capital)
        IN  /\ RatSumOver(UnroundedPnl, acc.stats, DOMAIN acc.stats) = Rat(walk.net_total, 1)
            /\ tv.daily_buy = tl.daily_buy
            /\ tv.daily_sell = tl.daily_sell
            /\ DOMAIN DailyCharges(tv) = DOMAIN tl.ledger
            /\ \A d \in DOMAIN DailyCharges(tv) :
                   \E i \in 1..Len(walk.daily) :
                       /\ walk.daily[i].date = DateStr(d)
                       /\ walk.daily[i].charges.total = DailyCharges(tv)[d]

\* The daily turnover of the allocator's first pass is the turnover of the
\* ledger's trade loop.
AllocatorTurnoverIsLedgerTurnover ==
    result.op = "strategy_pnl" =>
        LET tv == AllocatorTurnover(trades)
            tl == TradeLoop([ledger |-> EmptyDict, daily_buy |-> EmptyDict,
                             daily_sell |-> EmptyDict], trades)
        IN  tv.daily_buy = tl.daily_buy /\ tv.daily_sell = tl.daily_sell

\* The charges added to the strategy buckets by the trades of date d
ApportionedOn(trs, d) ==
    LET OnDate(t) == t.trade_time # NoTime /\ DateOf(t.trade_time) = d
        acc == AllocatorStats(SelectSeq(trs, OnDate), AllocatorTurnover(trs))
    IN  RatSumOver(ChargesOf, acc.stats, DOMAIN acc.stats)

\* C24: for every date with a positive turnover the charges apportioned by the
\* date's trades sum to the date's charge total, whatever the sides of the
\* trades; for a date without turnover nothing is apportioned.
C24_ApportionmentConservesCharges ==
    (result.op = "strategy_pnl" /\ result.response.error = "") =>
        LET tv == AllocatorTurnover(trades)
        IN  \A d \in {DateOf(trades[i].trade_time) : i \in 1..Len(trades)} :
                LET day_total == Get(tv.daily_buy, d, 0) + Get(tv.daily_sell, d, 0)
                IN  IF day_total > 0
                    THEN ApportionedOn(trades, d) = Rat(DailyCharges(tv)[d], 1)
                    ELSE ApportionedOn(trades, d) = Rat(0, 1)

\* C25: once every update_capital call has returned, account_settings holds at
\* most one row, its capital is the payload of one of the calls, and the
\* readers of the capital, whichever row they pick, read the same capital.
C25_SingleRowAfterConcurrentUpdates ==
    ((\A c \in Callers : calls[c].pc = "idle") /\ (\E c \in Callers : calls[c].capital # 0)) =>
        /\ Len(account_settings) <= 1
        /\ \A i \in 1..Len(account_settings) :
               \E c \in Callers : calls[c].capital = account_settings[i].capital
        /\ \A row \in FirstUnordered(account_settings) :
               CapitalOf(row) = CapitalOf(FirstByIdDesc(account_settings))

\* C26: whatever the trades, a symbol or a side missing or a side in lower case
\* included, GET /positions and calculate_positions emit summaries for the same
\* symbols, with the same avg_price, realized_pnl_points and realized_pnl_amount.
C26_ReconcilersAgree ==
    result.op = "get_realized_positions" =>
        LET engine == calculate_positions(trades)
            route == result.positions
        IN  /\ result.error = ""
            /\ {engine[i].symbol : i \in 1..Len(engine)} = {route[j].symbol : j \in 1..Len(route)}
            /\ \A i \in 1..Len(engine), j \in 1..Len(route) :
                   engine[i].symbol = route[j].symbol =>
                       /\ engine[i].avg_price = route[j].avg_price
                       /\ engine[i].realized_pnl_points = route[j].realized_pnl_points
                       /\ engine[i].realized_pnl_amount = route[j].realized_pnl_amount

====
